---- MODULE Spec2Model ----
(***************************************************************************)
(* Weekly attendance tracker (weeklyAttTrackV2.py): the consolidator, the  *)
(* ledger ("base file") rollover and the trend/threshold evaluator, as     *)
(* driven by main.                                                          *)
(*                                                                         *)
(* Percentages are kept in hundredths of a percent (83.33 is 8333), which  *)
(* is exact for values rounded to two decimals.  A record of the program   *)
(* (a Python dict, a DataFrame row) is a TLA+ record.  The functions of    *)
(* the program that main calls are also run on their own, on inputs main   *)
(* need not produce (SpecCalls): call is the pending call, ret its result. *)
(* SpecRerun repeats main in test mode on the same extract and ledger, and *)
(* SpecRun follows one invocation of main from the reading of its files to *)
(* the reports, on files that may be absent, unreadable or unparseable.    *)
(***************************************************************************)
EXTENDS Integers, Sequences, FiniteSets, TLC

\* Longest raw weekly attendance extract, in rows.
MaxRows == 2

\* Longest extract handed to consolidate_attendance called on its own.
MaxCallRows == 3

\* Invocations on the same files that a rerun is followed through.
MaxRuns == 2

\* Most columns of a file handed to read_csv called on its own.
MaxHeaders == 3

\* Student identifiers occurring in the extracts.
Students == {1, 2}

\* <<hrs_attended, hrs_absent, hrs_possible>> of one raw row.
Hours == { <<0, 0, 0>>, <<8, 2, 10>>, <<10, 0, 10>> }

\* Python's None.
Null == -1

\* A local variable that has not been assigned yet.
Unbound == -2

\* The 90 percent flag threshold, in hundredths of a percent.
Threshold == 9000

\* The lowest percent that still qualifies for an intervention letter.
LetterFloor == 7000

\* School days of the year so far.
TOTAL_SCHOOL_DAYS == 160

VARIABLES
    file_exists,          \* os.path.exists(base_file)
    base_file,            \* rows of the ledger file
    backup_made,          \* this invocation has written a backup file
    backup,               \* rows of the backup file written by this invocation
    writes,               \* number of writes of the ledger file by this invocation
    TESTING_MODE,         \* the module flag of the running invocation
    pc,                   \* position of main ("idle": no invocation is running)
    raised,               \* the function whose exception ended this invocation
    current_week_data,    \* main's locals
    one_week_back_data,
    two_weeks_back_data,
    results,
    previous,             \* history: how the previous invocation went
    call,                 \* a function called on its own: [op, ...arguments]
    ret                   \* what that call returned or raised

vars == << file_exists, base_file, backup_made, backup, writes, TESTING_MODE, pc,
           raised, current_week_data, one_week_back_data, two_weeks_back_data,
           results, previous, call, ret >>

----------------------------------------------------------------------------
(* Raw input *)

\* The payload columns of the extract rows of student s.
Name(s) == IF s = 1 THEN "Avery" ELSE "Blake"

Grade(s) == 8 + s

RawRecord ==
    { [student_number |-> s, name |-> Name(s), grade |-> Grade(s),
       hrs_attended |-> h[1], hrs_absent |-> h[2],
       hrs_possible |-> h[3]] : s \in Students, h \in Hours }

RawExtracts == UNION { [1..n -> RawRecord] : n \in 0..MaxRows }

----------------------------------------------------------------------------
(* Consolidator *)

\* round(attended / possible * 100, 2), in hundredths (round half to even).
Round2(attended, possible) ==
    LET q == (attended * 10000) \div possible
        r == (attended * 10000) % possible
    IN  IF 2 * r > possible THEN q + 1
        ELSE IF 2 * r = possible THEN q + (q % 2)
        ELSE q

\* Index of the first record of seq with this student_number, 0 if none:
\* next((s for s in seq if s['student_number'] == student_id), None).
FirstMatch(seq, student_id) ==
    LET hits == { i \in 1..Len(seq) : seq[i].student_number = student_id }
    IN  IF hits = {} THEN 0
        ELSE CHOOSE i \in hits : \A j \in hits : i <= j

\* One iteration of the loop of consolidate_attendance.  st.data is the dict
\* consolidated_data in insertion order, st.attendance_percentage the local
\* of that name (already rounded), st.raised whether the loop has raised.
ConsolidateStep(st, record) ==
    LET student_id == record.student_number
        k     == FirstMatch(st.data, student_id)
        data1 == IF k = 0
                 THEN Append(st.data, [student_number |-> student_id,
                                       name |-> record.name,
                                       grade |-> record.grade,
                                       hrs_attended |-> 0, hrs_absent |-> 0,
                                       hrs_possible |-> 0, ind_att_percent |-> 0])
                 ELSE st.data
        i     == IF k = 0 THEN Len(data1) ELSE k
        total_attended == data1[i].hrs_attended + record.hrs_attended
        total_absent   == data1[i].hrs_absent + record.hrs_absent
        total_possible == data1[i].hrs_possible + record.hrs_possible
        attendance_percentage ==
            IF total_possible > 0 THEN Round2(total_attended, total_possible)
            ELSE st.attendance_percentage
    IN  IF st.raised THEN st
        ELSE IF attendance_percentage = Unbound
        THEN [st EXCEPT !.raised = TRUE]
        ELSE [data |-> [data1 EXCEPT ![i] =
                          [student_number |-> student_id,
                           name |-> data1[i].name,
                           grade |-> data1[i].grade,
                           hrs_attended |-> total_attended,
                           hrs_absent |-> total_absent,
                           hrs_possible |-> total_possible,
                           ind_att_percent |-> attendance_percentage]],
              attendance_percentage |-> attendance_percentage,
              raised |-> FALSE]

RECURSIVE ConsolidateLoop(_, _, _)
ConsolidateLoop(attendance_data, n, st) ==
    IF n > Len(attendance_data) THEN st
    ELSE ConsolidateLoop(attendance_data, n + 1,
                         ConsolidateStep(st, attendance_data[n]))

\* Mutation: the consolidated list is returned unfiltered.
consolidate_attendance_Unfiltered(attendance_data) ==
    LET st == ConsolidateLoop(attendance_data, 1,
                [data |-> << >>, attendance_percentage |-> Unbound,
                 raised |-> FALSE])
    IN  [raised |-> st.raised, data |-> st.data]

\* [raised, data]: data is the returned consolidated_list when not raised.
consolidate_attendance(attendance_data) ==
    LET st == ConsolidateLoop(attendance_data, 1,
                [data |-> << >>, attendance_percentage |-> Unbound,
                 raised |-> FALSE])
    IN  [raised |-> st.raised,
         data   |-> SelectSeq(st.data, LAMBDA d : d.hrs_possible > 0)]

----------------------------------------------------------------------------
(* Reading a file: read_csv *)

\* A header is the sequence of its words and blanks, " " being a blank:
\* 'Student Number' is << "Student", " ", "Number" >>.  A canonical name is
\* the header of one word.
attendance_mapping ==
    (<< "Count" >> :> << "count" >>)
    @@ (<< "Reporting", " ", "School" >> :> << "reporting_school" >>)
    @@ (<< "Attending", " ", "School" >> :> << "attending_school" >>)
    @@ (<< "MOSIS", " ", "ID" >> :> << "mosis_id" >>)
    @@ (<< "Student", " ", "Number" >> :> << "student_number" >>)
    @@ (<< "Name" >> :> << "name" >>)
    @@ (<< "Grade" >> :> << "grade" >>)
    @@ (<< "Hrs", " ", "Attended" >> :> << "hrs_attended" >>)
    @@ (<< "Hrs", " ", "Absent" >> :> << "hrs_absent" >>)
    @@ (<< "Hrs", " ", "Possible" >> :> << "hrs_possible" >>)
    @@ (<< "Ind", " ", "Att", " ", "%" >> :> << "ind_att_percent" >>)
    @@ (<< "Segment" >> :> << "segment" >>)
    @@ (<< "Tot", " ", "Hrs", " ", "for", " ", "Period" >> :> << "total_hrs_period" >>)
    @@ (<< "Att", " ", "Pts" >> :> << "att_pts" >>)
    @@ (<< "Adj", " ", "Prop", " ", "Wt" >> :> << "adj_prop_wt" >>)

\* str.strip() of a header: the blanks at both ends go.
RECURSIVE Strip(_)
Strip(h) ==
    IF h = << >> THEN h
    ELSE IF Head(h) = " " THEN Strip(Tail(h))
    ELSE IF h[Len(h)] = " " THEN Strip(SubSeq(h, 1, Len(h) - 1))
    ELSE h

\* df.rename(columns=column_mapping) on one header: a header that is a key
\* gets its canonical name, any other header stays.
Rename(h, column_mapping) ==
    IF h \in DOMAIN column_mapping THEN column_mapping[h] ELSE h

\* pd.DataFrame(): no columns, no rows.
EmptyFrame == [columns |-> << >>, rows |-> << >>]

\* Mutation: the headers that are not keys of the mapping are dropped.
read_csv_DropsUnmapped(file, column_mapping) ==
    IF file.state # "table" THEN EmptyFrame
    ELSE LET kept == SelectSeq(file.columns,
                               LAMBDA h : Strip(h) \in DOMAIN column_mapping)
         IN  [columns |-> [i \in 1..Len(kept) |-> column_mapping[Strip(kept[i])]],
              rows    |-> file.rows]

\* The frame read_csv returns.  A file is absent (FileNotFoundError), not
\* readable as a table (any other exception of pd.read_csv) or a table of
\* columns and rows; both exceptions are caught and the empty frame is
\* returned.
read_csv(file, column_mapping) ==
    IF file.state # "table" THEN EmptyFrame
    ELSE [columns |-> [i \in 1..Len(file.columns) |->
                          Rename(Strip(file.columns[i]), column_mapping)],
          rows    |-> file.rows]

----------------------------------------------------------------------------
(* Ledger rollover *)

\* Mutation: the tagged snapshot is handed on twice over.
prepare_current_week_data_Twice(cwd) ==
    [i \in 1..Len(cwd) |-> cwd[i] @@ [weekly_value |-> -1]]
    \o [i \in 1..Len(cwd) |-> cwd[i] @@ [weekly_value |-> -1]]

prepare_current_week_data(cwd) ==
    [i \in 1..Len(cwd) |-> cwd[i] @@ [weekly_value |-> -1]]

\* Mutation: the first ledger is written with the current week tagged 0.
initialize_base_file_TaggedZero(cwd) ==
    [i \in 1..Len(cwd) |-> cwd[i] @@ [weekly_value |-> 0]]

initialize_base_file(cwd) == prepare_current_week_data(cwd)

\* Mutation: entries are dropped one week late.
clean_base_file_Late(df) == SelectSeq(df, LAMBDA r : r.weekly_value # -4)

clean_base_file(df) == SelectSeq(df, LAMBDA r : r.weekly_value # -3)

\* Mutation: the decremented column is not stored back.
DecrementWeeklyValue_Lost(df) == df

\* df['weekly_value'] = df['weekly_value'] - 1
DecrementWeeklyValue(df) ==
    [i \in 1..Len(df) |-> [df[i] EXCEPT !.weekly_value = @ - 1]]

\* The frame update_base_file saves over an existing base file.
UpdatedFrame(cwd, df) ==
    clean_base_file(DecrementWeeklyValue(df)) \o prepare_current_week_data(cwd)

\* A ledger file that pd.read_csv cannot parse: the file exists, and it is
\* no table.
Unparseable == << [bytes |-> "no table"] >>

\* Mutation: the frame read from the ledger always has the column.
WeeklyValueMissing_Never(file) == FALSE

\* Whether df['weekly_value'] raises KeyError on the frame read_csv returns
\* for the ledger: the empty frame returned after an exception of
\* pd.read_csv has no columns.
WeeklyValueMissing(file) == file = Unparseable

\* The rows of the frame read_csv returns for the ledger.
LedgerRows(file) == IF file = Unparseable THEN << >> ELSE file

\* Mutation: the backup file is created but nothing is copied into it.
create_backup_Empty(df) == << >>

\* shutil.copy2(base_file_path, backup_file_path): the content of the copy.
create_backup(df) == df

WeekRows(df, w) == SelectSeq(df, LAMBDA r : r.weekly_value = w)

\* Mutation: the previous weeks are read from the already aged ledger.
read_previous_weeks_Aged(df) ==
    << SelectSeq(df, LAMBDA r : r.weekly_value - 1 = -1),
       SelectSeq(df, LAMBDA r : r.weekly_value - 1 = -2) >>

\* <<one_week_prior_df, two_weeks_prior_df>>
read_previous_weeks(df) == << WeekRows(df, -1), WeekRows(df, -2) >>

----------------------------------------------------------------------------
(* Trend and threshold evaluator *)

RECURSIVE PrimeLoop(_, _, _)
PrimeLoop(cwd, n, res) ==
    IF n > Len(cwd) THEN res
    ELSE LET student == cwd[n]
         IN  IF {"student_number", "ind_att_percent"} \subseteq DOMAIN student
             THEN PrimeLoop(cwd, n + 1,
                    (student.student_number :>
                        [student_number |-> student.student_number,
                         name |-> student.name,
                         grade |-> student.grade,
                         current_week_att_percent |-> student.ind_att_percent,
                         below_90_1_week |-> student.ind_att_percent < Threshold])
                    @@ res)
             ELSE PrimeLoop(cwd, n + 1, res)

\* Mutation: one invalid record voids the whole result.
prime_results_VoidOnInvalid(cwd) ==
    IF \A i \in 1..Len(cwd) :
          {"student_number", "ind_att_percent"} \subseteq DOMAIN cwd[i]
    THEN PrimeLoop(cwd, 1, << >>)
    ELSE << >>

prime_results(cwd) == PrimeLoop(cwd, 1, << >>)

\* one_week_student.get('ind_att_percent', None)
GetPercent(row) ==
    IF "ind_att_percent" \in DOMAIN row THEN row.ind_att_percent ELSE Null

\* current_att_percent < 90 and prior is not None and prior < 90
Below90TwoWeeks(current_att_percent, one_week_att_percent) ==
    /\ current_att_percent < Threshold
    /\ one_week_att_percent # Null
    /\ one_week_att_percent < Threshold

\* The conditional expression of trend_1_week.
TrendOneWeek(current_att_percent, one_week_att_percent) ==
    IF one_week_att_percent # Null /\ current_att_percent > one_week_att_percent
    THEN "Up"
    ELSE IF one_week_att_percent # Null /\ current_att_percent < one_week_att_percent
    THEN "Down"
    ELSE IF one_week_att_percent # Null THEN "No Change"
    ELSE "N/A"

\* The loop of compare_one_week_back from its n-th student on.  owap is the
\* local one_week_att_percent, which the loop assigns only when the student
\* has a match and never resets.
RECURSIVE CompareOneLoop(_, _, _, _, _)
CompareOneLoop(cwd, owb, res, n, owap) ==
    IF n > Len(cwd) THEN [raised |-> FALSE, results |-> res]
    ELSE LET student == cwd[n]
             keyed   == {"student_number", "ind_att_percent"} \subseteq DOMAIN student
             sid     == student.student_number
             cur     == student.ind_att_percent
             m       == FirstMatch(owb, sid)
             owap1   == IF m # 0 THEN GetPercent(owb[m]) ELSE owap
         IN  IF ~keyed \/ owap1 = Unbound \/ sid \notin DOMAIN res
             THEN [raised |-> TRUE, results |-> res]
             ELSE CompareOneLoop(cwd, owb,
                    [res EXCEPT ![sid] =
                        [one_week_back_percent |-> owap1,
                         below_90_2_weeks |-> Below90TwoWeeks(cur, owap1),
                         trend_1_week |-> TrendOneWeek(cur, owap1)] @@ @],
                    n + 1, owap1)

\* Mutation: an empty snapshot gives every entry the fields of a student
\* without a prior record.
compare_one_week_back_Defaults(cwd, owb, res) ==
    IF owb = << >>
    THEN [raised |-> FALSE,
          results |-> [sid \in DOMAIN res |->
                          [one_week_back_percent |-> Null,
                           below_90_2_weeks |-> FALSE,
                           trend_1_week |-> "N/A"] @@ res[sid]]]
    ELSE CompareOneLoop(cwd, owb, res, 1, Unbound)

\* [raised, results]: results is the dict as the call leaves it.
compare_one_week_back(cwd, owb, res) ==
    IF owb = << >> THEN [raised |-> FALSE, results |-> res]
    ELSE CompareOneLoop(cwd, owb, res, 1, Unbound)

\* Whether evaluating below_90_3_weeks and trend_2_weeks raises: a missing
\* 'one_week_back_percent' key (KeyError) or a None operand of < or >
\* (TypeError).  The conjunction short-circuits left to right.
TwoWeeksRaises(cur, entry, twap) ==
    \/ /\ cur < Threshold
       /\ \/ "one_week_back_percent" \notin DOMAIN entry
          \/ entry.one_week_back_percent = Null
          \/ entry.one_week_back_percent < Threshold /\ twap = Null
    \/ twap = Null

\* Mutation: the one-week-back percent is left out of the conjunction.
Below90ThreeWeeks_NoOneWeek(cur, entry, twap) ==
    /\ cur < Threshold
    /\ twap < Threshold

Below90ThreeWeeks(cur, entry, twap) ==
    /\ cur < Threshold
    /\ entry.one_week_back_percent < Threshold
    /\ twap < Threshold

\* Mutation: an unchanged percent is reported as a rise.
TrendTwoWeeks_NoEqual(cur, twap) ==
    IF cur >= twap THEN "Up" ELSE "Down"

TrendTwoWeeks(cur, twap) ==
    IF cur > twap THEN "Up"
    ELSE IF cur < twap THEN "Down"
    ELSE IF twap # Null THEN "No Change"
    ELSE "N/A"

RECURSIVE CompareTwoLoop(_, _, _, _)
CompareTwoLoop(cwd, twb, res, n) ==
    IF n > Len(cwd) THEN [raised |-> FALSE, results |-> res]
    ELSE LET student == cwd[n]
             keyed   == {"student_number", "ind_att_percent"} \subseteq DOMAIN student
             sid     == student.student_number
             cur     == student.ind_att_percent
             m       == FirstMatch(twb, sid)
             twap    == GetPercent(twb[m])
         IN  IF ~keyed THEN [raised |-> TRUE, results |-> res]
             ELSE IF m = 0 THEN CompareTwoLoop(cwd, twb, res, n + 1)
             ELSE IF sid \notin DOMAIN res \/ TwoWeeksRaises(cur, res[sid], twap)
             THEN [raised |-> TRUE, results |-> res]
             ELSE CompareTwoLoop(cwd, twb,
                    [res EXCEPT ![sid] =
                        [two_weeks_back_percent |-> twap,
                         below_90_3_weeks |-> Below90ThreeWeeks(cur, @, twap),
                         trend_2_weeks |-> TrendTwoWeeks(cur, twap)] @@ @],
                    n + 1)

compare_two_weeks_back(cwd, twb, res) ==
    IF twb = << >> THEN [raised |-> FALSE, results |-> res]
    ELSE CompareTwoLoop(cwd, twb, res, 1)

\* [raised, results]: an exception of a step ends the call.
flag_attendance_issues(current_week, one_week_back, two_weeks_back) ==
    LET primed == prime_results(current_week)
        one    == compare_one_week_back(current_week, one_week_back, primed)
        two    == compare_two_weeks_back(current_week, two_weeks_back, one.results)
    IN  IF one.raised THEN one ELSE two

----------------------------------------------------------------------------
(* Medical days, categories and the letter subset *)

\* Number of rows of a medical extract with this student_number.
MedCount(rows, student_id) ==
    Cardinality({ i \in 1..Len(rows) : rows[i].student_number = student_id })

\* round(total_med_days / TOTAL_SCHOOL_DAYS * 100, 2), in hundredths.  Below
\* 23 days the float the code rounds lies on the side of the exact quotient.
calculate_med_absence_percentage(med_full_days, med_partial_days) ==
    IF TOTAL_SCHOOL_DAYS = 0 THEN 0
    ELSE Round2(med_full_days + med_partial_days, TOTAL_SCHOOL_DAYS)

Min(a, b) == IF a <= b THEN a ELSE b

\* today.year - dob.year - ((today.month, today.day) < (dob.month, dob.day))
Age(today, dob) ==
    today.year - dob.year
    - (IF \/ today.month < dob.month
          \/ today.month = dob.month /\ today.day < dob.day
       THEN 1 ELSE 0)

\* Whether the dob cell makes strptime raise TypeError: an empty cell of the
\* file is the float NaN, which is true and no string.  The ValueError of a
\* string in another format is caught.
DobRaises(dob_str) == dob_str.kind = "nan"

\* dob_formatted: the date without the time, "Invalid Date" or "Unknown".
DobFormatted(dob_str) ==
    IF dob_str.kind = "datetime"
    THEN [kind |-> "date", year |-> dob_str.year, month |-> dob_str.month,
          day |-> dob_str.day]
    ELSE IF dob_str.kind = "text" THEN [kind |-> "Invalid Date"]
    ELSE [kind |-> "Unknown"]

\* age: the years, or "Unknown".
DobAge(today, dob_str) ==
    IF dob_str.kind = "datetime"
    THEN [kind |-> "years", years |-> Age(today, dob_str)]
    ELSE [kind |-> "Unknown"]

\* full_name, as the sequence of its parts: the middle name is appended if
\* it is a string, not empty and not 'nan' in any case.
FullName(ps_student) ==
    IF ps_student.middle_name \notin {"", "nan", "NaN"}
    THEN << ps_student.last_name, ", ", ps_student.first_name, " ",
            ps_student.middle_name >>
    ELSE << ps_student.last_name, ", ", ps_student.first_name >>

\* Mutation: the full name is written to 'name' as well.
DemographicFields_OverwritesName(ps_student, today) ==
    [name |-> ps_student.last_name,
     dob |-> DobFormatted(ps_student.dob),
     age |-> DobAge(today, ps_student.dob),
     attending_school |-> ps_student.attending_school,
     school_of_residence |-> ps_student.school_of_residence,
     full_name |-> FullName(ps_student)]

\* The dict the entry of a matching student is updated with.
DemographicFields(ps_student, today) ==
    [dob |-> DobFormatted(ps_student.dob),
     age |-> DobAge(today, ps_student.dob),
     attending_school |-> ps_student.attending_school,
     school_of_residence |-> ps_student.school_of_residence,
     home_room |-> ps_student.home_room,
     street |-> ps_student.street,
     city |-> ps_student.city,
     state |-> ps_student.state,
     zip |-> ps_student.zip,
     current_rel_type_code_set_id |-> ps_student.current_rel_type_code_set_id,
     is_custodial |-> ps_student.is_custodial,
     lives_with |-> ps_student.lives_with,
     receives_mail |-> ps_student.receives_mail,
     full_name |-> FullName(ps_student),
     email_address |-> ps_student.email_address,
     phone_number |-> ps_student.phone_number,
     phone_number_ext |-> ps_student.phone_number_ext,
     is_sms |-> ps_student.is_sms,
     is_preferred |-> ps_student.is_preferred,
     Team |-> IF "Team" \in DOMAIN ps_student THEN ps_student.Team ELSE "N/A"]

\* The loop over ps_data.  [raised, results]: results is the dict as the
\* loop leaves it, an exception ends it.
RECURSIVE DemographicLoop(_, _, _, _)
DemographicLoop(results_dict, ps_data, n, today) ==
    IF n > Len(ps_data) THEN [raised |-> FALSE, results |-> results_dict]
    ELSE LET ps_student == ps_data[n]
             student_id == ps_student.student_number
         IN  IF student_id \notin DOMAIN results_dict
             THEN DemographicLoop(results_dict, ps_data, n + 1, today)
             ELSE IF DobRaises(ps_student.dob)
             THEN [raised |-> TRUE, results |-> results_dict]
             ELSE DemographicLoop(
                    [results_dict EXCEPT ![student_id] =
                        DemographicFields(ps_student, today) @@ @],
                    ps_data, n + 1, today)

\* pa_student.get(key, default)
Get(row, key, default) == IF key \in DOMAIN row THEN row[key] ELSE default

ProbationFields(pa_student) ==
    [current_status |-> Get(pa_student, "current_status", "N/A"),
     end_date |-> Get(pa_student, "end_date", "N/A"),
     pa_letter_1 |-> Get(pa_student, "pa_letter_1", "N/A"),
     pa_letter_2 |-> Get(pa_student, "pa_letter_2", "N/A"),
     last_updated |-> Get(pa_student, "last_updated", "N/A"),
     notes |-> Get(pa_student, "notes", "No notes available")]

\* The loop over probation_data.
RECURSIVE ProbationLoop(_, _, _)
ProbationLoop(results_dict, probation_data, n) ==
    IF n > Len(probation_data) THEN results_dict
    ELSE LET pa_student == probation_data[n]
             student_id == pa_student.student_number
         IN  IF student_id \notin DOMAIN results_dict
             THEN ProbationLoop(results_dict, probation_data, n + 1)
             ELSE ProbationLoop(
                    [results_dict EXCEPT ![student_id] =
                        ProbationFields(pa_student) @@ @],
                    probation_data, n + 1)

\* The medical part: counts, absence percent and best case of every entry.
MedicalFields(results_dict, med_data, medp_data) ==
    [student_id \in DOMAIN results_dict |->
        LET data == results_dict[student_id]
            med_full_days    == MedCount(med_data, student_id)
            med_partial_days == MedCount(medp_data, student_id)
            med_absence_percent ==
                calculate_med_absence_percentage(med_full_days, med_partial_days)
            current_attendance ==
                IF "current_week_att_percent" \in DOMAIN data
                THEN data.current_week_att_percent ELSE 0
        IN  ("Med Full days" :> med_full_days)
            @@ ("Med Partial days" :> med_partial_days)
            @@ ("Med Absence Percent" :> med_absence_percent)
            @@ ("Best Case Attendance Percent" :>
                    Min(current_attendance + med_absence_percent, 10000))
            @@ data]

\* [raised, results]: the demographic join, the probation join and the
\* medical part, on the day today.  results is the dict as the call leaves
\* it (it is updated in place).
process_additional_data(results_dict, ps_data, probation_data, med_data, medp_data, today) ==
    LET ps == DemographicLoop(results_dict, ps_data, 1, today)
    IN  IF ps.raised THEN ps
        ELSE [raised |-> FALSE,
              results |-> MedicalFields(
                              ProbationLoop(ps.results, probation_data, 1),
                              med_data, medp_data)]

\* Mutation: 85 itself still counts as below 85.
categorize_attendance_Inclusive(att_percent) ==
    IF att_percent <= 8500 THEN "Below 85"
    ELSE IF att_percent < 8750 THEN "85 to below 87.5"
    ELSE IF att_percent < 9000 THEN "87.5 to below 90"
    ELSE IF att_percent < 9400 THEN "90 to below 94"
    ELSE "94 and above"

categorize_attendance(att_percent) ==
    IF att_percent < 8500 THEN "Below 85"
    ELSE IF 8500 <= att_percent /\ att_percent < 8750 THEN "85 to below 87.5"
    ELSE IF 8750 <= att_percent /\ att_percent < 9000 THEN "87.5 to below 90"
    ELSE IF 9000 <= att_percent /\ att_percent < 9400 THEN "90 to below 94"
    ELSE "94 and above"

add_attendance_category(res) ==
    [student_id \in DOMAIN res |->
        LET data == res[student_id]
        IN  IF /\ "current_week_att_percent" \in DOMAIN data
               /\ data.current_week_att_percent # Null
            THEN [attendance_category |->
                    categorize_attendance(data.current_week_att_percent)] @@ data
            ELSE data]

\* Mutation: the floor of the comment above the last filter (">= 80").
AtOrAboveFloor_Eighty(att_percent) == att_percent >= 8000

AtOrAboveFloor(att_percent) == att_percent >= LetterFloor

\* df[df[column] == value] on one row: a row without the column holds NaN
\* there, which equals nothing.
CellIs(row, column, value) == column \in DOMAIN row /\ row[column] = value

\* [raised, rows].  df is the frame built from the student dicts of a
\* building group: its columns are the keys some dict has, and indexing a
\* column no dict has raises KeyError.
filter_subset_by_conditions(df) ==
    LET columns == UNION { DOMAIN df[i] : i \in 1..Len(df) }
        needed  == {"below_90_3_weeks", "current_week_att_percent", "trend_2_weeks",
                    "trend_1_week", "below_90_2_weeks", "below_90_1_week"}
        Keep(row) ==
            /\ CellIs(row, "below_90_3_weeks", TRUE)
            /\ row.current_week_att_percent < Threshold
            /\ CellIs(row, "trend_2_weeks", "Down")
            /\ CellIs(row, "trend_1_week", "Down")
            /\ CellIs(row, "below_90_2_weeks", TRUE)
            /\ CellIs(row, "below_90_1_week", TRUE)
            /\ AtOrAboveFloor(row.current_week_att_percent)
    IN  IF needed \subseteq columns
        THEN [raised |-> FALSE, rows |-> SelectSeq(df, Keep)]
        ELSE [raised |-> TRUE, rows |-> << >>]

----------------------------------------------------------------------------
(* School names, the filter on them, and the extracts *)

school_dict ==
    (1 :> "High School 1") @@ (2 :> "High School 2") @@ (3 :> "High School 3")
    @@ (4 :> "Middle School 1") @@ (5 :> "Middle School 2")
    @@ (6 :> "Middle School 3") @@ (7 :> "Middle School 4")
    @@ (8 :> "Elementary School 1") @@ (9 :> "Elementary School 2")
    @@ (10 :> "Elementary School 3") @@ (11 :> "Elementary School 4")
    @@ (12 :> "Elementary School 5") @@ (13 :> "Elementary School 6")
    @@ (14 :> "Elementary School 7") @@ (15 :> "Elementary School 8")
    @@ (16 :> "Elementary School 9") @@ (17 :> "Elementary School 10")
    @@ (18 :> "Elementary School 10") @@ (19 :> "Elementary School 11")
    @@ (20 :> "Elementary School 12") @@ (21 :> "Elementary School 13")
    @@ (22 :> "alt HS") @@ (23 :> "alt Elem") @@ (24 :> "TechSchool")
    @@ (25 :> "private secondary") @@ (26 :> "alternativeprog")
    @@ (27 :> "alternativeprog") @@ (28 :> "alternativeprog")
    @@ (29 :> "alt MS") @@ (30 :> "Out of Dist Elem") @@ (31 :> "ELC")
    @@ (32 :> "ELC")

\* The groups in the order of the dict literal.
building_group_mapping ==
    << [group_name |-> "team 1", schools |-> {"High School 1"}],
       [group_name |-> "team 3", schools |-> {"High School 2"}],
       [group_name |-> "team 4", schools |-> {"Middle School 3"}],
       [group_name |-> "team 5", schools |-> {"High School 3"}],
       [group_name |-> "team 6",
        schools |-> {"Middle School 4", "Elementary School 1"}],
       [group_name |-> "team 7", schools |-> {"Middle School 1"}],
       [group_name |-> "team 8", schools |-> {"Elementary School 9"}],
       [group_name |-> "team 9",
        schools |-> {"Elementary School 6", "Elementary School 10"}],
       [group_name |-> "team 10",
        schools |-> {"Elementary School 7", "Elementary School 8"}],
       [group_name |-> "team 11",
        schools |-> {"Elementary School 12", "Elementary School 3"}],
       [group_name |-> "team 12",
        schools |-> {"Elementary School 13", "Middle School 2",
                     "Elementary School 2", "Elementary School 5",
                     "Elementary School 4", "Elementary School 11"}],
       [group_name |-> "Elementary School 13", schools |-> {"Elementary School 13"}],
       [group_name |-> "Middle School 2", schools |-> {"Middle School 2"}],
       [group_name |-> "Elementary School 2", schools |-> {"Elementary School 2"}],
       [group_name |-> "Elementary School 5", schools |-> {"Elementary School 5"}],
       [group_name |-> "Elementary School 4", schools |-> {"Elementary School 4"}],
       [group_name |-> "Elementary School 11", schools |-> {"Elementary School 11"}],
       [group_name |-> "Elementary School 6", schools |-> {"Elementary School 6"}],
       [group_name |-> "ELC - Not used", schools |-> {"ELC"}],
       [group_name |-> "Middle School 3", schools |-> {"Middle School 3"}],
       [group_name |-> "Elementary School 1", schools |-> {"Elementary School 1"}],
       [group_name |-> "Middle School 4", schools |-> {"Middle School 4"}],
       [group_name |-> "High School 1", schools |-> {"High School 1"}],
       [group_name |-> "Elementary School 8", schools |-> {"Elementary School 8"}],
       [group_name |-> "District",
        schools |-> {"High School 1", "High School 2", "High School 3",
                     "Middle School 1", "Middle School 2", "Middle School 3",
                     "Middle School 4", "Elementary School 1",
                     "Elementary School 5", "Elementary School 6",
                     "Elementary School 2", "Elementary School 3",
                     "Elementary School 4", "Elementary School 8",
                     "Elementary School 9", "ELC", "Elementary School 10",
                     "Elementary School 11", "Elementary School 12",
                     "Elementary School 13", "alt HS", "alt Elem", "TechSchool",
                     "private secondary", "alternativeprog", "alt MS",
                     "Elementary School 7"}] >>

\* f"Unknown School (Code: {code})"; the code of an entry without the field
\* is None.
UnknownSchool(code) ==
    "Unknown School (Code: " \o (IF code = Null THEN "None" ELSE ToString(code))
    \o ")"

\* The name written for a code.
SchoolName(code, schools) ==
    IF code \in DOMAIN schools THEN schools[code] ELSE UnknownSchool(code)

map_school_codes(results_dict, schools) ==
    [student_id \in DOMAIN results_dict |->
        LET student_data == results_dict[student_id]
        IN  [attending_school |->
                SchoolName(Get(student_data, "attending_school", Null), schools),
             school_of_residence |->
                SchoolName(Get(student_data, "school_of_residence", Null), schools)]
            @@ student_data]

\* Mutation: no entry is removed.
filter_unknown_schools_KeepsAll(results_dict) == results_dict

\* The entries whose school_of_residence is not 'Unknown School (Code:
\* None)'; an entry without the field has None there and stays.
filter_unknown_schools(results_dict) ==
    LET kept == { student_id \in DOMAIN results_dict :
                    "school_of_residence" \in DOMAIN results_dict[student_id]
                        => results_dict[student_id].school_of_residence
                             # UnknownSchool(Null) }
    IN  [student_id \in kept |-> results_dict[student_id]]

\* list(results_dict.values()), by ascending student number.
RECURSIVE Values(_)
Values(d) ==
    IF DOMAIN d = {} THEN << >>
    ELSE LET k == CHOOSE x \in DOMAIN d : \A y \in DOMAIN d : x <= y
         IN  << d[k] >> \o Values([y \in DOMAIN d \ {k} |-> d[y]])

\* The students of a file, by their numbers.
Numbers(rows) == { rows[i].student_number : i \in 1..Len(rows) }

\* The loop over the groups.  [raised, extracts]: extracts holds, for every
\* group whose {group_name}_attendance.csv was written, the group and the
\* students of the file.  generate_additional_building_csvs raises KeyError
\* where filter_subset_by_conditions does, after the file of the group was
\* written.
RECURSIVE GroupLoop(_, _, _, _)
GroupLoop(students, mapping, n, extracts) ==
    IF n > Len(mapping) THEN [raised |-> FALSE, extracts |-> extracts]
    ELSE LET filtered_students ==
                 SelectSeq(students,
                           LAMBDA student :
                               student.school_of_residence \in mapping[n].schools)
             written == extracts \cup
                           { [group_name |-> mapping[n].group_name,
                              students |-> Numbers(filtered_students)] }
         IN  IF filtered_students = << >>
             THEN GroupLoop(students, mapping, n + 1, extracts)
             ELSE IF filter_subset_by_conditions(filtered_students).raised
             THEN [raised |-> TRUE, extracts |-> written]
             ELSE GroupLoop(students, mapping, n + 1, written)

\* The students of no group.
Uncategorized(students, mapping) ==
    SelectSeq(students,
              LAMBDA student :
                  ~\E n \in 1..Len(mapping) :
                      student.school_of_residence \in mapping[n].schools)

\* [raised, extracts, uncategorized]: the files written; uncategorized is
\* the students of uncategorized_attendance.csv, none if it was not
\* written.  An entry without school_of_residence is a KeyError in the
\* first comprehension.
generate_building_csvs(results_dict, mapping) ==
    LET students == Values(results_dict)
        groups   == GroupLoop(students, mapping, 1, {})
    IN  IF \E i \in 1..Len(students) :
              "school_of_residence" \notin DOMAIN students[i]
        THEN [raised |-> TRUE, extracts |-> {}, uncategorized |-> {}]
        ELSE IF groups.raised
        THEN [raised |-> TRUE, extracts |-> groups.extracts, uncategorized |-> {}]
        ELSE [raised |-> FALSE, extracts |-> groups.extracts,
              uncategorized |-> Numbers(Uncategorized(students, mapping))]

\* The students of the final report.
generate_final_report(results_dict) == Numbers(Values(results_dict))

----------------------------------------------------------------------------
(* main *)

\* No function is called on its own.
NoCall == [op |-> "none"]

NoInvocation ==
    [ran |-> FALSE, testing |-> FALSE, raised |-> "none",
     current_week_data |-> << >>, one_week_back_data |-> << >>]

Init ==
    /\ file_exists = FALSE
    /\ base_file = << >>
    /\ backup_made = FALSE
    /\ backup = << >>
    /\ writes = 0
    /\ TESTING_MODE = FALSE
    /\ pc = "idle"
    /\ raised = "none"
    /\ current_week_data = << >>
    /\ one_week_back_data = << >>
    /\ two_weeks_back_data = << >>
    /\ results = << >>
    /\ previous = NoInvocation
    /\ call = NoCall
    /\ ret = NoCall

\* Step 1 of main, input_attendance_data, of an invocation started with the
\* flag value tm on the weekly extract raw (an absent or unreadable extract
\* reads as no rows).
InputAttendanceData(tm, raw) ==
    LET c == consolidate_attendance(raw)
        weeks == IF file_exists THEN read_previous_weeks(LedgerRows(base_file))
                 ELSE << << >>, << >> >>
    IN  /\ pc = "idle"
        /\ TESTING_MODE' = tm
        /\ IF c.raised
           THEN /\ raised' = "consolidate_attendance"
                /\ pc' = "crashed"
                /\ UNCHANGED << current_week_data, one_week_back_data,
                                two_weeks_back_data >>
           ELSE IF file_exists /\ WeeklyValueMissing(base_file)
           THEN /\ raised' = "read_previous_weeks"
                /\ pc' = "crashed"
                /\ UNCHANGED << current_week_data, one_week_back_data,
                                two_weeks_back_data >>
           ELSE /\ raised' = "none"
                /\ pc' = "loaded"
                /\ current_week_data' = c.data
                /\ one_week_back_data' = weeks[1]
                /\ two_weeks_back_data' = weeks[2]
        /\ UNCHANGED << file_exists, base_file, backup_made, backup, writes,
                        results, previous, call, ret >>

\* Steps 2 to 4 of main: prime_results, compare_one_week_back,
\* compare_two_weeks_back.  An exception ends the invocation.
FlagAttendance ==
    LET primed == prime_results(current_week_data)
        one    == compare_one_week_back(current_week_data, one_week_back_data, primed)
        two    == compare_two_weeks_back(current_week_data, two_weeks_back_data,
                                         one.results)
    IN  /\ pc = "loaded"
        /\ IF one.raised
           THEN /\ results' = one.results
                /\ raised' = "compare_one_week_back"
                /\ pc' = "crashed"
           ELSE IF two.raised
           THEN /\ results' = two.results
                /\ raised' = "compare_two_weeks_back"
                /\ pc' = "crashed"
           ELSE /\ results' = two.results
                /\ raised' = "none"
                /\ pc' = "flagged"
        /\ UNCHANGED << file_exists, base_file, backup_made, backup, writes,
                        TESTING_MODE, current_week_data, one_week_back_data,
                        two_weeks_back_data, previous, call, ret >>

\* Mutation: the update is made under TESTING_MODE too.
SkipUpdate_Writes ==
    /\ pc = "flagged"
    /\ TESTING_MODE
    /\ base_file' = IF file_exists THEN UpdatedFrame(current_week_data, base_file)
                    ELSE initialize_base_file(current_week_data)
    /\ file_exists' = TRUE
    /\ pc' = "updated"
    /\ UNCHANGED << backup_made, backup, writes, TESTING_MODE, raised,
                    current_week_data, one_week_back_data, two_weeks_back_data,
                    results, previous, call, ret >>

\* main under TESTING_MODE: update_base_file is not called (and would return
\* at once).
SkipUpdate ==
    /\ pc = "flagged"
    /\ TESTING_MODE
    /\ pc' = "updated"
    /\ UNCHANGED << file_exists, base_file, backup_made, backup, writes,
                    TESTING_MODE, raised, current_week_data, one_week_back_data,
                    two_weeks_back_data, results, previous, call, ret >>

\* update_base_file without a base file: initialize_base_file and return.
InitializeBaseFile ==
    /\ pc = "flagged"
    /\ ~TESTING_MODE
    /\ ~file_exists
    /\ base_file' = initialize_base_file(current_week_data)
    /\ file_exists' = TRUE
    /\ writes' = writes + 1
    /\ pc' = "updated"
    /\ UNCHANGED << backup_made, backup, TESTING_MODE, raised, current_week_data,
                    one_week_back_data, two_weeks_back_data, results, previous, call, ret >>

\* Mutation: the update does not look at TESTING_MODE.
CreateBackup_Unguarded ==
    /\ pc = "flagged"
    /\ file_exists
    /\ backup' = create_backup(base_file)
    /\ backup_made' = TRUE
    /\ pc' = "backed_up"
    /\ UNCHANGED << file_exists, base_file, writes, TESTING_MODE, raised,
                    current_week_data, one_week_back_data, two_weeks_back_data,
                    results, previous, call, ret >>

\* update_base_file with a base file, up to the return of create_backup.
CreateBackup ==
    /\ pc = "flagged"
    /\ ~TESTING_MODE
    /\ file_exists
    /\ backup' = create_backup(base_file)
    /\ backup_made' = TRUE
    /\ pc' = "backed_up"
    /\ UNCHANGED << file_exists, base_file, writes, TESTING_MODE, raised,
                    current_week_data, one_week_back_data, two_weeks_back_data,
                    results, previous, call, ret >>

\* update_base_file after create_backup: read, decrement, clean, append, save.
SaveUpdatedFrame ==
    /\ pc = "backed_up"
    /\ IF WeeklyValueMissing(base_file)
       THEN /\ raised' = "update_base_file"
            /\ pc' = "crashed"
            /\ UNCHANGED << base_file, writes >>
       ELSE /\ base_file' = UpdatedFrame(current_week_data, LedgerRows(base_file))
            /\ writes' = writes + 1
            /\ pc' = "updated"
            /\ UNCHANGED raised
    /\ UNCHANGED << file_exists, backup_made, backup, TESTING_MODE,
                    current_week_data, one_week_back_data, two_weeks_back_data,
                    results, previous, call, ret >>

\* The invocation ends, by main returning or by the exception: its locals
\* and the flag go with the process, the files stay.  The model follows the
\* backup file of the running invocation only.
ExitProcess ==
    /\ pc \in {"updated", "crashed"}
    /\ pc' = "idle"
    /\ raised' = "none"
    /\ TESTING_MODE' = FALSE
    /\ backup_made' = FALSE
    /\ backup' = << >>
    /\ writes' = 0
    /\ current_week_data' = << >>
    /\ one_week_back_data' = << >>
    /\ two_weeks_back_data' = << >>
    /\ results' = << >>
    /\ UNCHANGED << file_exists, base_file, call, ret >>

Exit == ExitProcess /\ UNCHANGED previous

\* Exit, with the invocation that ends written to the history variable.
ExitRecorded ==
    /\ ExitProcess
    /\ previous' = [ran |-> TRUE, testing |-> TESTING_MODE, raised |-> raised,
                    current_week_data |-> current_week_data,
                    one_week_back_data |-> one_week_back_data]

Next ==
    \/ \E tm \in BOOLEAN, raw \in RawExtracts : InputAttendanceData(tm, raw)
    \/ FlagAttendance
    \/ SkipUpdate
    \/ InitializeBaseFile
    \/ CreateBackup
    \/ SaveUpdatedFrame
    \/ Exit

Spec == Init /\ [][Next]_vars

NextRecorded ==
    \/ \E tm \in BOOLEAN, raw \in RawExtracts : InputAttendanceData(tm, raw)
    \/ FlagAttendance
    \/ SkipUpdate
    \/ InitializeBaseFile
    \/ CreateBackup
    \/ SaveUpdatedFrame
    \/ ExitRecorded

\* The same program, with the history variable kept.
SpecRecorded == Init /\ [][NextRecorded]_vars

----------------------------------------------------------------------------
(* The functions called on their own *)

mainVars == << file_exists, base_file, backup_made, backup, writes, TESTING_MODE,
               pc, raised, current_week_data, one_week_back_data,
               two_weeks_back_data, results, previous >>

\* Extract rows, among them the rows of the consolidation example (10 of 12
\* hours attended, then 10 of 10).
CallHours == Hours \cup { <<10, 2, 12>> }

CallRecord ==
    { [student_number |-> s, name |-> Name(s), grade |-> Grade(s),
       hrs_attended |-> h[1], hrs_absent |-> h[2],
       hrs_possible |-> h[3]] : s \in Students, h \in CallHours }

ConsolidateCalls ==
    { [op |-> "consolidate_attendance", attendance_data |-> d] :
        d \in UNION { [1..n -> CallRecord] : n \in 0..MaxCallRows } }

\* Percents of a current-week record, around the 90 percent threshold.
SnapshotPercents == {8999, 9000, 10000}

WellFormed ==
    { [student_number |-> s, name |-> Name(s), grade |-> Grade(s),
       ind_att_percent |-> p] : s \in Students, p \in SnapshotPercents }

\* Records without the identifier and records without the percent.
Malformed ==
    { [name |-> Name(1), grade |-> Grade(1), ind_att_percent |-> p] :
        p \in SnapshotPercents }
    \cup { [student_number |-> s, name |-> Name(s), grade |-> Grade(s)] :
             s \in Students }

\* A snapshot holds at most one record per student identifier.
DistinctIds(cwd) ==
    \A i, j \in 1..Len(cwd) :
        ( /\ i # j
          /\ "student_number" \in DOMAIN cwd[i]
          /\ "student_number" \in DOMAIN cwd[j] )
        => cwd[i].student_number # cwd[j].student_number

Snapshots ==
    { cwd \in UNION { [1..n -> WellFormed \cup Malformed] : n \in 0..MaxRows } :
        DistinctIds(cwd) }

\* Non-empty snapshots read back from the ledger at age w.
PriorSnapshots(w) ==
    LET Row(s, p) == [student_number |-> s, name |-> Name(s), grade |-> Grade(s),
                      ind_att_percent |-> p, weekly_value |-> w]
    IN  { << Row(s, p) >> : s \in Students, p \in {8000, 10000} }
        \cup { << Row(1, p), Row(2, q) >> : p, q \in {8000, 10000} }

PrimeCalls ==
    { [op |-> "prime_results", current_week_data |-> cwd] : cwd \in Snapshots }

FlagCalls ==
    { [op |-> "flag_attendance_issues", current_week |-> cwd,
       one_week_back |-> owb, two_weeks_back |-> twb] :
        cwd \in Snapshots, owb \in PriorSnapshots(-1), twb \in PriorSnapshots(-2) }

\* Current percents around the letter floor and the threshold, and prior
\* percents that make the current ones fall, stay or lie below 90 or not.
LetterPercents == {6999, 7000, 8900, 9000}

PriorPercents == {8900, 8950, 9500}

\* The results entries the evaluator can give student s.
ResultEntries(s) ==
    LET Row(p, w) == [student_number |-> s, name |-> Name(s), grade |-> Grade(s),
                      ind_att_percent |-> p, weekly_value |-> w]
        Prior(w)  == { << >> } \cup { << Row(q, w) >> : q \in PriorPercents }
        Cur(p)    == [student_number |-> s, name |-> Name(s), grade |-> Grade(s),
                      ind_att_percent |-> p]
        runs == { flag_attendance_issues(<< Cur(p) >>, owb, twb) :
                    p \in LetterPercents, owb \in Prior(-1), twb \in Prior(-2) }
    IN  { f.results[s] : f \in { g \in runs : ~g.raised } }

\* The frames of a building group: one row per student of the group.
GroupFrames ==
    { << >> }
    \cup UNION { { << e >> : e \in ResultEntries(s) } : s \in Students }
    \cup { << e1, e2 >> : e1 \in ResultEntries(1), e2 \in ResultEntries(2) }

FilterCalls ==
    { [op |-> "filter_subset_by_conditions", df |-> df] : df \in GroupFrames }

\* Current percents at and next to the category limits.
CategoryPercents == {0, 8499, 8500, 8749, 8750, 8999, 9000, 9399, 9400, 10000}

\* The results dicts of prime_results on snapshots with these percents.
PrimedResults(percents) ==
    UNION { [S -> percents] : S \in SUBSET Students }

PrimedDict(f) ==
    prime_results([i \in 1..Cardinality(DOMAIN f) |->
        LET s == CHOOSE t \in DOMAIN f :
                    Cardinality({ u \in DOMAIN f : u < t }) = i - 1
        IN  [student_number |-> s, name |-> Name(s), grade |-> Grade(s),
             ind_att_percent |-> f[s]]])

CategoryCalls ==
    { [op |-> "add_attendance_category", results |-> PrimedDict(f)] :
        f \in PrimedResults(CategoryPercents) }

\* Rows of the medical extracts: only student_number is read.  Student 3 is
\* in no snapshot.
MedicalExtracts ==
    UNION { [1..n -> { [student_number |-> s] : s \in Students \cup {3} }] :
              n \in 0..MaxRows }

\* The day of the call.
Today == [year |-> 2024, month |-> 9, day |-> 16]

MedicalCalls ==
    { [op |-> "process_additional_data", results_dict |-> PrimedDict(f),
       ps_data |-> << >>, probation_data |-> << >>,
       med_data |-> med, medp_data |-> medp, today |-> Today] :
        f \in PrimedResults({8333, 9950, 10000}),
        med \in MedicalExtracts, medp \in MedicalExtracts }

\* Cells of the dob column: a birthday before, on and after the day of the
\* call, a string in another format, an empty string, and the NaN of an
\* empty cell.
DobCells ==
    { [kind |-> "datetime", year |-> 2010, month |-> m, day |-> d] :
        m \in {9, 10}, d \in {15, 16, 17} }
    \cup { [kind |-> "text"], [kind |-> "empty"], [kind |-> "nan"] }

\* A row of the demographic extract for student s.
PsRecord(s, dob, school, middle) ==
    [student_number |-> s, dob |-> dob, attending_school |-> school,
     school_of_residence |-> school, home_room |-> "101", street |-> "1 Main St",
     city |-> "Townsville", state |-> "TS", zip |-> "12345",
     current_rel_type_code_set_id |-> 1, is_custodial |-> 1, lives_with |-> 1,
     receives_mail |-> 1, first_name |-> Name(s), middle_name |-> middle,
     last_name |-> "Smith", email_address |-> "smith@example.com",
     phone_number |-> "1234567890", phone_number_ext |-> "", is_sms |-> 1,
     is_preferred |-> 0]

\* Demographic extracts: rows of the two students and of student 3, who is
\* in no snapshot, with every dob cell; rows with other middle names and
\* with a Team column; two rows, the second of another student or of the
\* same one.
PsExtracts ==
    LET birthday == [kind |-> "datetime", year |-> 2010, month |-> 9, day |-> 16]
        rows == { PsRecord(s, dob, 1, "D") : s \in Students \cup {3}, dob \in DobCells }
                \cup { PsRecord(1, birthday, 1, middle) : middle \in {"", "nan"} }
                \cup { PsRecord(1, birthday, 1, "D") @@ [Team |-> "Blue"] }
    IN  { << >> } \cup { << r >> : r \in rows }
        \cup { << PsRecord(1, birthday, 1, "D"), PsRecord(s, dob, 30, "D") >> :
                 s \in Students \cup {3},
                 dob \in { birthday, [kind |-> "nan"] } }

\* Probation extracts: rows with every column, and rows with the student
\* number and the status only.
PaExtracts ==
    LET Full(s) == [student_number |-> s, current_status |-> "Active",
                    end_date |-> "2024-12-31", notes |-> "On probation",
                    pa_letter_1 |-> "sent", pa_letter_2 |-> "due",
                    last_updated |-> "2024-09-01"]
        Bare(s) == [student_number |-> s, current_status |-> "Inactive"]
        rows == { Full(s) : s \in Students \cup {3} }
                \cup { Bare(s) : s \in Students \cup {3} }
    IN  { << >> } \cup { << r >> : r \in rows }

\* Results dicts of the evaluator, of no student, one student and both.
JoinResults ==
    LET entries(s) == { e \in ResultEntries(s) :
                          /\ e.current_week_att_percent = 8900
                          /\ "trend_1_week" \in DOMAIN e => e.trend_1_week = "Down"
                          /\ "trend_2_weeks" \in DOMAIN e => e.trend_2_weeks = "Down" }
    IN  { << >> }
        \cup { (1 :> e) : e \in entries(1) }
        \cup { (1 :> e1) @@ (2 :> e2) : e1 \in entries(1), e2 \in entries(2) }

\* Results as main hands them to generate_building_csvs: every entry with
\* the name of a school of a group, of a school of no group, or of an
\* unknown code.
ReportResults ==
    LET named == { "High School 1", "Middle School 2", "Out of Dist Elem",
                   UnknownSchool(99) }
        With(e, school) == [attending_school |-> school,
                            school_of_residence |-> school] @@ e
    IN  { [sid \in DOMAIN r |-> With(r[sid], f[sid])] :
            r \in { x \in JoinResults :
                      \A sid \in DOMAIN x :
                          "trend_1_week" \in DOMAIN x[sid]
                              <=> "trend_2_weeks" \in DOMAIN x[sid] },
            f \in [Students -> named] }

ReportCalls ==
    { [op |-> "generate_building_csvs", results_dict |-> r,
       building_group_mapping |-> building_group_mapping] : r \in ReportResults }

JoinCalls ==
    { [op |-> "process_additional_data", results_dict |-> r,
       ps_data |-> ps, probation_data |-> pa,
       med_data |-> << >>, medp_data |-> << [student_number |-> 1] >>,
       today |-> Today] :
        r \in JoinResults, ps \in PsExtracts, pa \in PaExtracts }

\* Headers of files: keys of the mapping, plain and with blanks around them,
\* and headers that are no keys, two of them the ledger's own.
FileHeaders ==
    { << "Student", " ", "Number" >>, << " ", "Name", " " >>, << "Grade", " " >>,
      << "Teacher" >>, << "weekly_value" >>, << "student_number" >> }

\* Files: an absent one, an unreadable one, and tables of up to MaxHeaders
\* different columns with no row or one row.
CsvFiles ==
    { [state |-> st, columns |-> << >>, rows |-> << >>] :
        st \in {"absent", "unreadable"} }
    \cup UNION { { [state |-> "table", columns |-> c, rows |-> r] :
                     c \in { h \in [1..n -> FileHeaders] :
                               \A i, j \in 1..n : h[i] = h[j] => i = j },
                     r \in { << >>, << [i \in 1..n |-> "x"] >> } } :
                 n \in 0..MaxHeaders }

ReadCsvCalls ==
    { [op |-> "read_csv", file |-> f, column_mapping |-> attendance_mapping] :
        f \in CsvFiles }

InitCalls ==
    /\ file_exists = FALSE
    /\ base_file = << >>
    /\ backup_made = FALSE
    /\ backup = << >>
    /\ writes = 0
    /\ TESTING_MODE = FALSE
    /\ pc = "idle"
    /\ raised = "none"
    /\ current_week_data = << >>
    /\ one_week_back_data = << >>
    /\ two_weeks_back_data = << >>
    /\ results = << >>
    /\ previous = NoInvocation
    /\ \/ call \in ConsolidateCalls
       \/ call \in PrimeCalls
       \/ call \in FlagCalls
       \/ call \in FilterCalls
       \/ call \in CategoryCalls
       \/ call \in MedicalCalls
       \/ call \in ReadCsvCalls
       \/ call \in JoinCalls
       \/ call \in ReportCalls
    /\ ret = NoCall

ConsolidateAttendance ==
    /\ call.op = "consolidate_attendance"
    /\ ret = NoCall
    /\ ret' = consolidate_attendance(call.attendance_data)
    /\ UNCHANGED << mainVars, call >>

PrimeResults ==
    /\ call.op = "prime_results"
    /\ ret = NoCall
    /\ ret' = [raised |-> FALSE, results |-> prime_results(call.current_week_data)]
    /\ UNCHANGED << mainVars, call >>

FlagAttendanceIssues ==
    /\ call.op = "flag_attendance_issues"
    /\ ret = NoCall
    /\ ret' = flag_attendance_issues(call.current_week, call.one_week_back,
                                      call.two_weeks_back)
    /\ UNCHANGED << mainVars, call >>

FilterSubsetByConditions ==
    /\ call.op = "filter_subset_by_conditions"
    /\ ret = NoCall
    /\ ret' = filter_subset_by_conditions(call.df)
    /\ UNCHANGED << mainVars, call >>

AddAttendanceCategory ==
    /\ call.op = "add_attendance_category"
    /\ ret = NoCall
    /\ ret' = [raised |-> FALSE, results |-> add_attendance_category(call.results)]
    /\ UNCHANGED << mainVars, call >>

ProcessAdditionalData ==
    /\ call.op = "process_additional_data"
    /\ ret = NoCall
    /\ ret' = process_additional_data(call.results_dict, call.ps_data,
                                       call.probation_data, call.med_data,
                                       call.medp_data, call.today)
    /\ UNCHANGED << mainVars, call >>

ReadCsv ==
    /\ call.op = "read_csv"
    /\ ret = NoCall
    /\ ret' = read_csv(call.file, call.column_mapping)
    /\ UNCHANGED << mainVars, call >>

GenerateBuildingCsvs ==
    /\ call.op = "generate_building_csvs"
    /\ ret = NoCall
    /\ ret' = generate_building_csvs(call.results_dict, call.building_group_mapping)
    /\ UNCHANGED << mainVars, call >>

NextCalls ==
    \/ ReadCsv
    \/ GenerateBuildingCsvs
    \/ ConsolidateAttendance
    \/ PrimeResults
    \/ FlagAttendanceIssues
    \/ FilterSubsetByConditions
    \/ AddAttendanceCategory
    \/ ProcessAdditionalData

SpecCalls == InitCalls /\ [][NextCalls]_vars

----------------------------------------------------------------------------
(* Reruns of main in test mode on the same files *)

\* Snapshots of earlier weeks: of no student, of one student, of both.
LedgerSnapshots ==
    { c.data : c \in { d \in { consolidate_attendance(raw) :
                                  raw \in UNION { [1..n -> RawRecord] : n \in 0..2 } } :
                         /\ ~d.raised
                         /\ \A i \in 1..Len(d.data) : d.data[i].student_number = i } }

\* The ledgers one or two invocations on such snapshots leave behind.
Ledgers ==
    { initialize_base_file(a) : a \in LedgerSnapshots }
    \cup { UpdatedFrame(b, initialize_base_file(a)) : a, b \in LedgerSnapshots }

\* The files of a rerun: the extract and the ledger (none, or one of Ledgers).
RerunCalls ==
    LET files == { [file_exists |-> FALSE, base_file |-> << >>] }
                 \cup { [file_exists |-> TRUE, base_file |-> l] : l \in Ledgers }
    IN  { [op |-> "rerun", raw |-> raw, file_exists |-> f.file_exists,
           base_file |-> f.base_file] : raw \in RawExtracts, f \in files }

NoRun == [runs |-> 0]

InitRerun ==
    /\ call \in RerunCalls
    /\ file_exists = call.file_exists
    /\ base_file = call.base_file
    /\ backup_made = FALSE
    /\ backup = << >>
    /\ writes = 0
    /\ TESTING_MODE = FALSE
    /\ pc = "idle"
    /\ raised = "none"
    /\ current_week_data = << >>
    /\ one_week_back_data = << >>
    /\ two_weeks_back_data = << >>
    /\ results = << >>
    /\ previous = NoRun
    /\ ret = NoCall

\* An invocation with TESTING_MODE = True on the extract of the rerun.
RerunInput ==
    /\ previous.runs < MaxRuns
    /\ InputAttendanceData(TRUE, call.raw)

\* Exit, with the outcome of the invocation kept for the next one.
ExitRerun ==
    /\ ExitProcess
    /\ previous' = [runs |-> previous.runs + 1, raised |-> raised,
                    current_week_data |-> current_week_data, results |-> results]

NextRerun ==
    \/ RerunInput
    \/ FlagAttendance
    \/ SkipUpdate
    \/ ExitRerun

SpecRerun == InitRerun /\ [][NextRerun]_vars

----------------------------------------------------------------------------
(* One invocation of main from its first step to its last, on given files *)

\* df_to_dict(read_csv(path, mapping)) of a source, whose rows are written
\* with the canonical names: an absent or unreadable source gives no rows.
LoadRecords(file) == IF file.state = "table" THEN file.rows ELSE << >>

\* A source that is there, and the two kinds of a missing one.
Table(rows) == [state |-> "table", rows |-> rows]

Missing == { [state |-> st, rows |-> << >>] : st \in {"absent", "unreadable"} }

\* Weekly extracts: no row, student 1, both students, two rows of student
\* 1, and a first row without possible hours.
RunExtracts ==
    LET Row(s, h) == [student_number |-> s, name |-> Name(s), grade |-> Grade(s),
                      hrs_attended |-> h[1], hrs_absent |-> h[2],
                      hrs_possible |-> h[3]]
    IN  { << >>, << Row(1, <<8, 2, 10>>) >>,
          << Row(1, <<8, 2, 10>>), Row(2, <<10, 0, 10>>) >>,
          << Row(1, <<8, 2, 10>>), Row(1, <<10, 0, 10>>) >>,
          << Row(2, <<0, 0, 0>>), Row(1, <<8, 2, 10>>) >> }

\* Demographic extracts: no row, student 1 at a school of a group, student 2
\* as well or at a school of no group or with an unknown code, and a row
\* with an empty dob cell.
RunDemographics ==
    LET birthday == [kind |-> "datetime", year |-> 2010, month |-> 9, day |-> 16]
        Ps(s, school) == PsRecord(s, birthday, school, "D")
    IN  { << >>, << Ps(1, 1) >>, << Ps(1, 1), Ps(2, 1) >>, << Ps(1, 1), Ps(2, 30) >>,
          << Ps(2, 99) >>, << Ps(2, 22), Ps(3, 1) >>,
          << PsRecord(1, [kind |-> "nan"], 1, "D") >> }

\* The ledgers before the invocation: those of one or two invocations on
\* snapshots in which every student has 80 percent, and the unparseable one.
RunLedgers ==
    { l \in Ledgers : \A i \in 1..Len(l) : l[i].hrs_attended = 8 }
    \cup { Unparseable }

RunCalls ==
    { [op |-> "main", testing |-> tm, attendance |-> att, ps |-> ps, pa |-> pa,
       med |-> med, medp |-> medp, today |-> Today] :
        tm \in BOOLEAN,
        att \in Missing \cup { Table(rows) : rows \in RunExtracts },
        ps \in Missing \cup { Table(rows) : rows \in RunDemographics },
        pa \in { [state |-> "absent", rows |-> << >>],
                 Table(<< [student_number |-> 1, current_status |-> "Active"] >>) },
        med \in { [state |-> "absent", rows |-> << >>],
                  Table(<< [student_number |-> 1] >>) },
        medp \in { [state |-> "absent", rows |-> << >>], Table(<< >>) } }

InitRun ==
    /\ call \in RunCalls
    /\ \/ file_exists = FALSE /\ base_file = << >>
       \/ file_exists = TRUE /\ base_file \in RunLedgers
    /\ backup_made = FALSE
    /\ backup = << >>
    /\ writes = 0
    /\ TESTING_MODE = FALSE
    /\ pc = "idle"
    /\ raised = "none"
    /\ current_week_data = << >>
    /\ one_week_back_data = << >>
    /\ two_weeks_back_data = << >>
    /\ results = << >>
    /\ previous = NoInvocation
    /\ ret = NoCall

\* Step 1 on the weekly extract of the invocation.
RunInput == InputAttendanceData(call.testing, LoadRecords(call.attendance))

\* Steps 5 and 6 of main: load_additional_data, process_additional_data,
\* map_school_codes, filter_unknown_schools, add_attendance_category.
ProcessResults ==
    LET extra == process_additional_data(results, LoadRecords(call.ps),
                                         LoadRecords(call.pa), LoadRecords(call.med),
                                         LoadRecords(call.medp), call.today)
    IN  /\ pc = "flagged"
        /\ ret = NoCall
        /\ IF extra.raised
           THEN /\ results' = extra.results
                /\ raised' = "process_additional_data"
                /\ pc' = "crashed"
                /\ UNCHANGED ret
           ELSE /\ results' = add_attendance_category(
                                  filter_unknown_schools(
                                      map_school_codes(extra.results, school_dict)))
                /\ ret' = [op |-> "processed"]
                /\ UNCHANGED << pc, raised >>
        /\ UNCHANGED << file_exists, base_file, backup_made, backup, writes,
                        TESTING_MODE, current_week_data, one_week_back_data,
                        two_weeks_back_data, previous, call >>

\* The ledger file is damaged by something else while main is between its
\* reading and its update.
DamageLedger ==
    /\ pc = "flagged"
    /\ ret.op = "processed"
    /\ file_exists
    /\ base_file # Unparseable
    /\ base_file' = Unparseable
    /\ UNCHANGED << file_exists, backup_made, backup, writes, TESTING_MODE, pc,
                    raised, current_week_data, one_week_back_data,
                    two_weeks_back_data, results, previous, call, ret >>

\* The last steps of main: clear_old_csvs_in_all_buildings (no file of an
\* earlier invocation is left), generate_building_csvs, generate_final_report
\* and generate_alt_hr_report.  An exception of generate_building_csvs ends
\* the invocation before the two reports.
GenerateReports ==
    LET csvs == generate_building_csvs(results, building_group_mapping)
        schools_to_include == {"alternativeprog", "alt Elem", "alt HS", "alt MS"}
    IN  /\ pc = "updated"
        /\ ret.op = "processed"
        /\ ret' = [op |-> "reports",
                   extracts |-> csvs.extracts,
                   uncategorized |-> csvs.uncategorized,
                   final_report |->
                       IF csvs.raised THEN {} ELSE generate_final_report(results),
                   alt_hr_report |->
                       IF csvs.raised THEN {}
                       ELSE { sid \in DOMAIN results :
                                Get(results[sid], "attending_school", "")
                                    \in schools_to_include }]
        /\ pc' = IF csvs.raised THEN "crashed" ELSE "done"
        /\ raised' = IF csvs.raised THEN "generate_building_csvs" ELSE raised
        /\ UNCHANGED << file_exists, base_file, backup_made, backup, writes,
                        TESTING_MODE, current_week_data, one_week_back_data,
                        two_weeks_back_data, results, previous, call >>

NextRun ==
    \/ RunInput
    \/ FlagAttendance
    \/ ProcessResults
    \/ DamageLedger
    \/ ret.op = "processed" /\ SkipUpdate
    \/ ret.op = "processed" /\ InitializeBaseFile
    \/ ret.op = "processed" /\ CreateBackup
    \/ SaveUpdatedFrame
    \/ GenerateReports

SpecRun == InitRun /\ [][NextRun]_vars

----------------------------------------------------------------------------
(* Properties *)

StudentIds(rows) == { rows[i].student_number : i \in 1..Len(rows) }

RowsAt(rows, w) == { i \in 1..Len(rows) : rows[i].weekly_value = w }

\* The record of rows for student sid (rows holds one).
RowOf(rows, sid) == rows[CHOOSE i \in 1..Len(rows) : rows[i].student_number = sid]

\* cwd as it is appended to the ledger: every record tagged age -1.
AtAgeMinusOne(cwd, rows) ==
    /\ Len(rows) = Len(cwd)
    /\ \A i \in 1..Len(cwd) :
          /\ rows[i].weekly_value = -1
          /\ \A f \in DOMAIN cwd[i] : rows[i][f] = cwd[i][f]
          /\ DOMAIN rows[i] = DOMAIN cwd[i] \cup {"weekly_value"}

\* A step of update_base_file that saves over an existing base file.
Rollover == pc = "backed_up" /\ pc' = "updated"

\* C1: update_base_file on an existing ledger keeps every entry that was at
\* age -1, now at age -2 and otherwise unchanged, drops exactly the entries
\* that were at age -2, and drops nothing else: the saved ledger is the old
\* one without its age -2 entries, each entry one week older, followed by the
\* current snapshot.
C1_RolloverAgesAndDrops ==
    [][ Rollover =>
          LET old   == base_file
              new   == base_file'
              kept  == SelectSeq(old, LAMBDA r : r.weekly_value # -2)
              nOld  == Len(new) - Len(current_week_data)
          IN  /\ nOld = Len(kept)
              /\ \A i \in 1..Len(kept) :
                    new[i] = [kept[i] EXCEPT !.weekly_value = kept[i].weekly_value - 1]
              /\ \A i \in RowsAt(old, -1) :
                    \E j \in 1..nOld : new[j] = [old[i] EXCEPT !.weekly_value = -2]
              /\ Cardinality(RowsAt(new, -2)) = Cardinality(RowsAt(old, -1))
              /\ Len(old) - nOld = Cardinality(RowsAt(old, -2))
      ]_vars

\* A rollover has aged an entry to -2 and dropped an entry that was at -2.
C1_Witness ==
    /\ pc = "updated"
    /\ backup_made
    /\ writes = 1
    /\ RowsAt(backup, -1) # {}
    /\ RowsAt(backup, -2) # {}
    /\ RowsAt(base_file, -2) # {}
    /\ Len(base_file) < Len(backup) + Len(current_week_data)

\* C2: every entry of the persisted ledger has age -1 or -2, in every state
\* reachable from no ledger.
C2_LedgerAges ==
    file_exists => \A i \in 1..Len(base_file) : base_file[i].weekly_value \in {-1, -2}

\* A rollover with an empty current snapshot has dropped the age -2 entries
\* and left only age -2 entries behind.
C2_Witness ==
    /\ pc = "updated"
    /\ backup_made
    /\ writes = 1
    /\ current_week_data = << >>
    /\ RowsAt(backup, -2) # {}
    /\ RowsAt(base_file, -2) # {}
    /\ RowsAt(base_file, -1) = {}

\* C3: whenever the existing base file is written, the backup file written by
\* this invocation holds exactly the content the write replaces, and the
\* write leaves the backup alone.
C3_BackupBeforeOverwrite ==
    [][ (file_exists /\ writes' = writes + 1) =>
          /\ backup_made
          /\ backup = base_file
          /\ backup' = backup /\ backup_made'
      ]_vars

\* An existing, non-empty ledger has been overwritten with other content and
\* the backup holds what it was.
C3_Witness ==
    /\ pc = "updated"
    /\ writes = 1
    /\ backup_made
    /\ backup # << >>
    /\ base_file # backup

\* C4: in an invocation, the one-week-back and two-weeks-back data are the
\* age -1 and age -2 rows of the ledger as it stands until the rollover (of
\* the backup copy of it afterwards), and the steps that write the ledger
\* come after the comparisons and leave their inputs and results alone.
C4_ComparisonsReadPreRollover ==
    /\ [] ( /\ (pc \in {"loaded", "flagged", "backed_up"} /\ file_exists) =>
                /\ one_week_back_data = SelectSeq(base_file, LAMBDA r : r.weekly_value = -1)
                /\ two_weeks_back_data = SelectSeq(base_file, LAMBDA r : r.weekly_value = -2)
            /\ (pc = "updated" /\ backup_made) =>
                /\ one_week_back_data = SelectSeq(backup, LAMBDA r : r.weekly_value = -1)
                /\ two_weeks_back_data = SelectSeq(backup, LAMBDA r : r.weekly_value = -2) )
    /\ [][ (base_file' # base_file \/ writes' = writes + 1) =>
              /\ pc \in {"flagged", "backed_up"}
              /\ UNCHANGED << current_week_data, one_week_back_data,
                              two_weeks_back_data, results >>
         ]_vars

\* The rollover has changed the age -1 rows of the ledger, and the comparison
\* inputs of the invocation are still the rows from before it.
C4_Witness ==
    /\ pc = "updated"
    /\ backup_made
    /\ writes = 1
    /\ one_week_back_data # << >>
    /\ two_weeks_back_data # << >>
    /\ one_week_back_data # SelectSeq(base_file, LAMBDA r : r.weekly_value = -1)
    /\ "one_week_back_percent" \in DOMAIN results[current_week_data[1].student_number]

\* rows, every record given the age tag w.
Tagged(rows, w) ==
    [i \in 1..Len(rows) |-> [weekly_value |-> w] @@ rows[i]]

\* C5 (as claimed): in a non-test-mode invocation that follows a
\* non-test-mode invocation, the one-week-back data is the snapshot the
\* previous invocation consolidated, and the two-weeks-back data is what was
\* one week back for the previous invocation.
C5_SnapshotIsNextWeeksBaseline ==
    ( /\ pc = "loaded"
      /\ ~TESTING_MODE
      /\ previous.ran
      /\ ~previous.testing
      /\ previous.raised # "consolidate_attendance" )
    => /\ one_week_back_data = Tagged(previous.current_week_data, -1)
       /\ two_weeks_back_data = Tagged(previous.one_week_back_data, -2)

\* C6: an invocation writes the ledger file at most once; under TESTING_MODE
\* no step changes the ledger file or writes a backup, and the comparisons
\* are made against the ledger as it is.
C6_TestModeLeavesLedger ==
    /\ [] ( /\ writes <= 1
            /\ (TESTING_MODE /\ pc \in {"loaded", "flagged", "updated"} /\ file_exists) =>
                /\ one_week_back_data = SelectSeq(base_file, LAMBDA r : r.weekly_value = -1)
                /\ two_weeks_back_data = SelectSeq(base_file, LAMBDA r : r.weekly_value = -2)
            /\ (TESTING_MODE /\ pc \in {"flagged", "updated"}) =>
                /\ DOMAIN results = StudentIds(current_week_data)
                /\ one_week_back_data # << >> =>
                     \A sid \in DOMAIN results :
                        "one_week_back_percent" \in DOMAIN results[sid] )
    /\ [][ TESTING_MODE =>
              /\ UNCHANGED << file_exists, base_file, backup_made, backup, writes >>
              /\ ~backup_made /\ writes = 0
         ]_vars

\* A test-mode invocation has run its comparisons against a ledger with both
\* weeks in it and has passed the update step.
C6_Witness ==
    /\ TESTING_MODE
    /\ pc = "updated"
    /\ file_exists
    /\ one_week_back_data # << >>
    /\ two_weeks_back_data # << >>
    /\ current_week_data # << >>
    /\ \E sid \in DOMAIN results : "two_weeks_back_percent" \in DOMAIN results[sid]

\* C7: without a ledger file the invocation gets empty one-week-back and
\* two-weeks-back data, and the update writes a ledger that is exactly the
\* current snapshot, every record at age -1, and writes no backup.
C7_Bootstrap ==
    /\ [] ( (pc \in {"loaded", "flagged"} /\ ~file_exists) =>
               one_week_back_data = << >> /\ two_weeks_back_data = << >> )
    /\ [][ (pc = "flagged" /\ ~TESTING_MODE /\ ~file_exists /\ pc' # pc) =>
              /\ file_exists'
              /\ AtAgeMinusOne(current_week_data, base_file')
              /\ writes' = writes + 1
              /\ ~backup_made /\ ~backup_made'
              /\ backup' = backup
         ]_vars

\* The first ledger has been written from a snapshot of two students.
C7_Witness ==
    /\ pc = "updated"
    /\ ~TESTING_MODE
    /\ ~backup_made
    /\ writes = 1
    /\ file_exists
    /\ Len(current_week_data) = 2
    /\ Len(base_file) = 2
    /\ one_week_back_data = << >>

\* C8 (as claimed): after compare_one_week_back on a non-empty one-week-back
\* snapshot, every current student without a record in it has
\* one_week_back_percent = None, trend_1_week = "N/A", below_90_2_weeks false.
C8_UnmatchedStudentDefaults ==
    (pc = "flagged" /\ one_week_back_data # << >>) =>
        \A sid \in StudentIds(current_week_data) \ StudentIds(one_week_back_data) :
            /\ results[sid].one_week_back_percent = Null
            /\ results[sid].trend_1_week = "N/A"
            /\ results[sid].below_90_2_weeks = FALSE

C10_FlagsRestOnOwnRecords ==
    pc = "flagged" =>
        \A sid \in DOMAIN results :
            LET r    == results[sid]
                own1 == /\ sid \in StudentIds(one_week_back_data)
                        /\ RowOf(one_week_back_data, sid).ind_att_percent < 9000
                own2 == /\ sid \in StudentIds(two_weeks_back_data)
                        /\ RowOf(two_weeks_back_data, sid).ind_att_percent < 9000
            IN  /\ ("below_90_2_weeks" \in DOMAIN r /\ r.below_90_2_weeks) =>
                      (own1 /\ r.current_week_att_percent < 9000)
                /\ ("below_90_3_weeks" \in DOMAIN r /\ r.below_90_3_weeks) =>
                      (own1 /\ own2 /\ r.current_week_att_percent < 9000)

C12_TwoWeeksSetsEveryStudent ==
    (pc = "flagged" /\ two_weeks_back_data # << >>) =>
        \A sid \in StudentIds(current_week_data) :
            /\ {"two_weeks_back_percent", "below_90_3_weeks", "trend_2_weeks"}
                   \subseteq DOMAIN results[sid]
            /\ sid \notin StudentIds(two_weeks_back_data) =>
                  /\ results[sid].two_weeks_back_percent = Null
                  /\ results[sid].below_90_3_weeks = FALSE
                  /\ results[sid].trend_2_weeks = "N/A"

\* C13 (as claimed): on every ledger a sequence of invocations leaves behind
\* and every consolidated current snapshot, prime_results,
\* compare_one_week_back and compare_two_weeks_back complete without raising.
C13_ComparisonsNeverRaise ==
    raised \notin {"compare_one_week_back", "compare_two_weeks_back"}

\* Sum of a column over the rows of one student.
RECURSIVE Total(_, _, _)
Total(rows, sid, field) ==
    IF rows = << >> THEN 0
    ELSE (IF Head(rows).student_number = sid THEN Head(rows)[field] ELSE 0)
         + Total(Tail(rows), sid, field)

\* C14: whatever the input rows, the list consolidate_attendance returns
\* holds no student whose possible hours are 0.
C14_NoZeroPossibleInOutput ==
    (call.op = "consolidate_attendance" /\ ret # NoCall /\ ~ret.raised) =>
        \A i \in 1..Len(ret.data) : ret.data[i].hrs_possible > 0

\* A student whose rows sum to no possible hours has been left out of a
\* list that holds another student.
C14_Witness ==
    /\ call.op = "consolidate_attendance"
    /\ ret # NoCall
    /\ ~ret.raised
    /\ ret.data # << >>
    /\ \E sid \in StudentIds(call.attendance_data) :
          /\ Total(call.attendance_data, sid, "hrs_possible") = 0
          /\ sid \notin StudentIds(ret.data)

\* C15 (as claimed): consolidate_attendance returns one record per student
\* identifier whose possible hours sum to more than 0, in order of first
\* appearance, holding the sums of that student's hours and the percent
\* round(attended / possible * 100, 2) of those sums.
C15_ConsolidatedTotals ==
    (call.op = "consolidate_attendance" /\ ret # NoCall) =>
        LET d   == call.attendance_data
            out == ret.data
        IN  /\ ~ret.raised
            /\ StudentIds(out) =
                  { sid \in StudentIds(d) : Total(d, sid, "hrs_possible") > 0 }
            /\ \A i, j \in 1..Len(out) :
                  i < j => FirstMatch(d, out[i].student_number)
                             < FirstMatch(d, out[j].student_number)
            /\ \A i \in 1..Len(out) :
                  LET sid == out[i].student_number
                  IN  /\ out[i].hrs_attended = Total(d, sid, "hrs_attended")
                      /\ out[i].hrs_absent = Total(d, sid, "hrs_absent")
                      /\ out[i].hrs_possible = Total(d, sid, "hrs_possible")
                      /\ out[i].ind_att_percent =
                            Round2(Total(d, sid, "hrs_attended"),
                                   Total(d, sid, "hrs_possible"))

\* C16: prime_results returns, without raising, one entry per record that has
\* both student_number and ind_att_percent, keyed by the identifier, holding
\* the record's identifier, name, grade and percent and below_90_1_week =
\* (percent < 90); the other records give no entry.
C16_PrimedEntries ==
    (call.op = "prime_results" /\ ret # NoCall) =>
        LET cwd   == call.current_week_data
            keyed == { i \in 1..Len(cwd) :
                         {"student_number", "ind_att_percent"} \subseteq DOMAIN cwd[i] }
        IN  /\ ~ret.raised
            /\ DOMAIN ret.results = { cwd[i].student_number : i \in keyed }
            /\ Cardinality(DOMAIN ret.results) = Cardinality(keyed)
            /\ \A i \in keyed :
                  ret.results[cwd[i].student_number] =
                     [student_number |-> cwd[i].student_number,
                      name |-> cwd[i].name,
                      grade |-> cwd[i].grade,
                      current_week_att_percent |-> cwd[i].ind_att_percent,
                      below_90_1_week |-> cwd[i].ind_att_percent < 9000]

\* A snapshot of a record below 90 percent and a record without its percent
\* has given one entry, flagged below 90.
C16_Witness ==
    /\ call.op = "prime_results"
    /\ ret # NoCall
    /\ Len(call.current_week_data) = 2
    /\ \E i \in 1..2 : "ind_att_percent" \notin DOMAIN call.current_week_data[i]
    /\ \E sid \in DOMAIN ret.results :
          /\ DOMAIN ret.results = {sid}
          /\ ret.results[sid].below_90_1_week
          /\ ret.results[sid].current_week_att_percent = 8999

\* C17 (as claimed): flag_attendance_issues on a snapshot with a record that
\* lacks the identifier or the percent, and non-empty prior snapshots,
\* completes without raising and returns the results of the well-formed
\* records.
C17_MalformedRowSkipped ==
    ( /\ call.op = "flag_attendance_issues"
      /\ ret # NoCall
      /\ \E i \in 1..Len(call.current_week) : call.current_week[i] \in Malformed )
    => /\ ~ret.raised
       /\ DOMAIN ret.results =
             { call.current_week[i].student_number :
                 i \in { j \in 1..Len(call.current_week) :
                            call.current_week[j] \in WellFormed } }

C19_CategoryRanges ==
    (call.op = "add_attendance_category" /\ ret # NoCall) =>
        /\ ~ret.raised
        /\ DOMAIN ret.results = DOMAIN call.results
        /\ \A sid \in DOMAIN call.results :
              LET cur == call.results[sid].current_week_att_percent
                  out == ret.results[sid]
              IN  /\ "attendance_category" \in DOMAIN out
                  /\ out.attendance_category \in
                        {"Below 85", "85 to below 87.5", "87.5 to below 90",
                         "90 to below 94", "94 and above"}
                  /\ out.attendance_category = "Below 85" <=> cur < 8500
                  /\ out.attendance_category = "85 to below 87.5"
                        <=> (8500 <= cur /\ cur < 8750)
                  /\ out.attendance_category = "87.5 to below 90"
                        <=> (8750 <= cur /\ cur < 9000)
                  /\ out.attendance_category = "90 to below 94"
                        <=> (9000 <= cur /\ cur < 9400)
                  /\ out.attendance_category = "94 and above" <=> cur >= 9400
                  /\ \A f \in DOMAIN call.results[sid] : out[f] = call.results[sid][f]

\* A student at exactly 85 percent and a student at exactly 94 percent have
\* got their categories.
C19_Witness ==
    /\ call.op = "add_attendance_category"
    /\ ret # NoCall
    /\ \E sid \in DOMAIN ret.results :
          /\ ret.results[sid].current_week_att_percent = 8500
          /\ ret.results[sid].attendance_category = "85 to below 87.5"
    /\ \E sid \in DOMAIN ret.results :
          /\ ret.results[sid].current_week_att_percent = 9400
          /\ ret.results[sid].attendance_category = "94 and above"

\* C20: process_additional_data sets 'Med Full days' and 'Med Partial days'
\* of every entry to the number of full-day and partial-day medical rows of
\* that student (0 if none), 'Med Absence Percent' to
\* round((full + partial) / TOTAL_SCHOOL_DAYS * 100, 2) and 'Best Case
\* Attendance Percent' to min(current + that percent, 100), which is never
\* above 100 and never below the current percent.
C20_MedicalDays ==
    (call.op = "process_additional_data" /\ ret # NoCall) =>
        /\ ~ret.raised
        /\ DOMAIN ret.results = DOMAIN call.results_dict
        /\ \A sid \in DOMAIN call.results_dict :
              LET cur     == call.results_dict[sid].current_week_att_percent
                  out     == ret.results[sid]
                  full    == Cardinality({ i \in 1..Len(call.med_data) :
                                             call.med_data[i].student_number = sid })
                  partial == Cardinality({ i \in 1..Len(call.medp_data) :
                                             call.medp_data[i].student_number = sid })
                  days    == full + partial
                  \* days / 160 * 100 is days * 125 / 2 hundredths: exact for an
                  \* even number of days, a tie rounded to even otherwise
                  percent == IF days % 2 = 0 THEN (days * 125) \div 2
                             ELSE IF (((days * 125) - 1) \div 2) % 2 = 0
                                  THEN ((days * 125) - 1) \div 2
                                  ELSE ((days * 125) + 1) \div 2
              IN  /\ out["Med Full days"] = full
                  /\ out["Med Partial days"] = partial
                  /\ out["Med Absence Percent"] = percent
                  /\ out["Best Case Attendance Percent"] =
                        (IF cur + percent < 10000 THEN cur + percent ELSE 10000)
                  /\ out["Best Case Attendance Percent"] <= 10000
                  /\ out["Best Case Attendance Percent"] >= cur

\* C21: with test mode on, a second invocation on the same extract and the
\* same ledger ends as the first did, with the same snapshot and the same
\* results, and the ledger file stays as it was before the first.
C21_TestModeRerun ==
    /\ file_exists = call.file_exists
    /\ base_file = call.base_file
    /\ (pc \in {"updated", "crashed"} /\ previous.runs >= 1) =>
          /\ raised = previous.raised
          /\ current_week_data = previous.current_week_data
          /\ results = previous.results

\* The second invocation has compared a student against both prior weeks of
\* the ledger and is through.
C21_Witness ==
    /\ call.op = "rerun"
    /\ previous.runs = 1
    /\ pc = "updated"
    /\ TESTING_MODE
    /\ \E sid \in DOMAIN results :
          {"trend_1_week", "trend_2_weeks"} \subseteq DOMAIN results[sid]
    /\ results = previous.results

\* C25 (as claimed): a student whose rows all have possible hours 0 is left
\* out of what consolidate_attendance returns without an exception, wherever
\* those rows stand in the extract, and every other student with possible
\* hours is returned.
C25_ZeroPossibleExcluded ==
    (/\ call.op = "consolidate_attendance"
     /\ ret # NoCall
     /\ \E sid \in StudentIds(call.attendance_data) :
           \A i \in 1..Len(call.attendance_data) :
              call.attendance_data[i].student_number = sid
                  => call.attendance_data[i].hrs_possible = 0) =>
        /\ ~ret.raised
        /\ \A sid \in StudentIds(call.attendance_data) :
              sid \in StudentIds(ret.data)
                  <=> Total(call.attendance_data, sid, "hrs_possible") > 0

\* C28: in every state reachable from no ledger, the persisted ledger holds
\* at most one entry per pair of student identifier and age tag.
C28_OneEntryPerStudentAndAge ==
    file_exists =>
        \A i, j \in 1..Len(base_file) :
            (/\ base_file[i].student_number = base_file[j].student_number
             /\ base_file[i].weekly_value = base_file[j].weekly_value) => i = j

\* A rollover has appended the one entry of a student whose extract had two
\* rows to a ledger that holds the student's entry of the week before.
C28_Witness ==
    /\ pc = "updated"
    /\ writes = 1
    /\ \E sid \in Students :
          /\ Cardinality({ i \in 1..Len(base_file) :
                              base_file[i].student_number = sid }) = 2
          /\ \E i \in 1..Len(base_file) :
                /\ base_file[i].student_number = sid
                /\ base_file[i].weekly_value = -1
                /\ base_file[i].hrs_possible = 20

\* C26: with an empty one-week-back snapshot compare_one_week_back leaves
\* the results as they are, and so does compare_two_weeks_back with an empty
\* two-weeks-back snapshot: no entry gets a field of that comparison, and
\* with both snapshots empty (a bootstrap invocation among them) the
\* invocation does not raise and the results are the primed entries alone.
C26_EmptySnapshotNoOp ==
    /\ one_week_back_data = << >> =>
          \A sid \in DOMAIN results :
              DOMAIN results[sid] \cap {"one_week_back_percent", "below_90_2_weeks",
                                       "trend_1_week"} = {}
    /\ two_weeks_back_data = << >> =>
          \A sid \in DOMAIN results :
              DOMAIN results[sid] \cap {"two_weeks_back_percent", "below_90_3_weeks",
                                       "trend_2_weeks"} = {}
    /\ (/\ one_week_back_data = << >>
        /\ two_weeks_back_data = << >>
        /\ pc \notin {"idle", "loaded"}
        /\ raised # "consolidate_attendance") =>
          /\ pc # "crashed"
          /\ results = prime_results(current_week_data)
          /\ \A sid \in DOMAIN results :
                DOMAIN results[sid] = {"student_number", "name", "grade",
                                       "current_week_att_percent", "below_90_1_week"}

\* A bootstrap invocation has flagged a student of its extract.
C26_Witness ==
    /\ pc = "flagged"
    /\ ~file_exists
    /\ one_week_back_data = << >>
    /\ two_weeks_back_data = << >>
    /\ results # << >>

\* C23 (as claimed): the table read_csv returns has canonical names only,
\* those of the raw headers that are keys of the mapping, and every raw
\* header that is not a key of the mapping is gone from it.
C23_UnmappedHeadersDropped ==
    (call.op = "read_csv" /\ ret # NoCall) =>
        { ret.columns[i] : i \in 1..Len(ret.columns) } =
            { call.column_mapping[Strip(call.file.columns[i])] :
                i \in { j \in 1..Len(call.file.columns) :
                          Strip(call.file.columns[j]) \in DOMAIN call.column_mapping } }

\* C23 (amended): the table read_csv returns has the columns of the file in
\* their order and its rows; a header that, stripped of surrounding blanks,
\* is a key of the mapping bears its canonical name, and any other header is
\* kept under its stripped raw name.
C23_UnmappedHeadersKept ==
    (call.op = "read_csv" /\ ret # NoCall /\ call.file.state = "table") =>
        /\ Len(ret.columns) = Len(call.file.columns)
        /\ ret.rows = call.file.rows
        /\ \A i \in 1..Len(ret.columns) :
              LET h == Strip(call.file.columns[i])
              IN  IF h \in DOMAIN call.column_mapping
                  THEN ret.columns[i] = call.column_mapping[h]
                  ELSE ret.columns[i] = h

\* A table with a padded header that is a key and a header that is none has
\* been read.
C23_Witness ==
    /\ call.op = "read_csv"
    /\ ret # NoCall
    /\ \E i, j \in 1..Len(call.file.columns) :
          /\ call.file.columns[i] = << " ", "Name", " " >>
          /\ ret.columns[i] = << "name" >>
          /\ call.file.columns[j] = << "weekly_value" >>
          /\ ret.columns[j] = << "weekly_value" >>

\* C29: process_additional_data is a left join.  The dict it leaves has the
\* student keys it was given, none for an identifier that only the other
\* data hold; every field an entry had before keeps its value; an entry
\* without a demographic row has none of the demographic fields, and an
\* entry without a probation row none of the probation fields.
C29_LeftJoin ==
    (call.op = "process_additional_data" /\ ret # NoCall) =>
        LET before == call.results_dict
            after  == ret.results
            Ids(rows) == { rows[i].student_number : i \in 1..Len(rows) }
        IN  /\ DOMAIN after = DOMAIN before
            /\ \A sid \in DOMAIN before :
                  /\ DOMAIN before[sid] \subseteq DOMAIN after[sid]
                  /\ \A k \in DOMAIN before[sid] : after[sid][k] = before[sid][k]
                  /\ sid \notin Ids(call.ps_data) =>
                        DOMAIN after[sid] \cap
                            {"dob", "age", "attending_school", "school_of_residence",
                             "home_room", "street", "city", "state", "zip",
                             "current_rel_type_code_set_id", "is_custodial",
                             "lives_with", "receives_mail", "full_name",
                             "email_address", "phone_number", "phone_number_ext",
                             "is_sms", "is_preferred", "Team"} = {}
                  /\ sid \notin Ids(call.probation_data) =>
                        DOMAIN after[sid] \cap
                            {"current_status", "end_date", "pa_letter_1",
                             "pa_letter_2", "last_updated", "notes"} = {}

\* One student of the results has got the demographic and the probation
\* fields, the other has neither, and the data held a row of a student who is
\* not in the results.
C29_Witness ==
    /\ call.op = "process_additional_data"
    /\ ret # NoCall
    /\ ~ret.raised
    /\ DOMAIN ret.results = {1, 2}
    /\ "trend_2_weeks" \in DOMAIN call.results_dict[1]
    /\ {"full_name", "age", "current_status"} \subseteq DOMAIN ret.results[1]
    /\ ret.results[1].age = [kind |-> "years", years |-> 14]
    /\ DOMAIN ret.results[2] \cap {"full_name", "current_status"} = {}
    /\ \E i \in 1..Len(call.ps_data) : call.ps_data[i].student_number = 3

\* C27 (as claimed): generate_building_csvs puts every student of the
\* results into the extract of every group whose schools hold the student's
\* school of residence and of no other group, and into the Uncategorized
\* extract exactly if there is no such group: no student is in both, and none
\* in neither.
C27_GroupOrUncategorized ==
    (call.op = "generate_building_csvs" /\ ret # NoCall) =>
        \A sid \in DOMAIN call.results_dict :
            LET school   == call.results_dict[sid].school_of_residence
                mapping  == call.building_group_mapping
                in_group == \E e \in ret.extracts : sid \in e.students
                in_uncategorized == sid \in ret.uncategorized
            IN  /\ in_group \/ in_uncategorized
                /\ ~(in_group /\ in_uncategorized)
                /\ \A e \in ret.extracts :
                      sid \in e.students =>
                          \E n \in 1..Len(mapping) :
                              /\ mapping[n].group_name = e.group_name
                              /\ school \in mapping[n].schools

\* C22 (as claimed): a source that is absent or unreadable is read as no
\* rows, and an invocation with a missing weekly, demographic, probation or
\* medical source, on a ledger that is absent or parseable, does not end with
\* an exception.
C22_MissingSourceRunsOn ==
    (/\ call.op = "main"
     /\ \E file \in {call.attendance, call.ps, call.pa, call.med, call.medp} :
           file.state # "table"
     /\ ~(file_exists /\ base_file = Unparseable)) =>
        /\ \A file \in {call.attendance, call.ps, call.pa, call.med, call.medp} :
              file.state # "table" => LoadRecords(file) = << >>
        /\ call.attendance.state # "table" =>
              (pc # "idle" => current_week_data = << >>)
        /\ pc # "crashed"

\* C24: an invocation that finds the ledger file unparseable ends with an
\* exception at its first step, with no history read; update_base_file ends
\* with an exception on an unparseable ledger; and no step writes the ledger
\* file while it is unparseable.
C24_UnparseableLedgerHalts ==
    /\ [][(pc = "idle" /\ file_exists /\ base_file = Unparseable)
            => /\ pc' = "crashed"
               /\ one_week_back_data' = << >>
               /\ two_weeks_back_data' = << >>]_vars
    /\ [][(pc = "backed_up" /\ base_file = Unparseable)
            => pc' = "crashed" /\ raised' = "update_base_file"]_vars
    /\ [][(file_exists /\ base_file = Unparseable)
            => base_file' = Unparseable /\ writes' = writes]_vars

\* An invocation with a readable weekly extract has ended in
\* read_previous_weeks on the unparseable ledger, which is as it was.
C24_Witness ==
    /\ call.op = "main"
    /\ pc = "crashed"
    /\ raised = "read_previous_weeks"
    /\ file_exists
    /\ base_file = Unparseable
    /\ writes = 0
    /\ LoadRecords(call.attendance) # << >>

\* C30: once main has mapped the school codes and filtered, a student of the
\* current snapshot without a demographic row is in no entry of the results,
\* and so in none of the files written from them: no group extract, not the
\* Uncategorized extract, not the final report, not the alt and HR report.
\* The rollover of an invocation that is not in test mode has the student's
\* record in the ledger at age -1 all the same.
C30_NoDemographicRecord ==
    (call.op = "main" /\ ret.op \in {"processed", "reports"}) =>
        \A i \in 1..Len(current_week_data) :
            LET sid == current_week_data[i].student_number
            IN  sid \notin Numbers(LoadRecords(call.ps)) =>
                  /\ sid \notin DOMAIN results
                  /\ ret.op = "reports" =>
                        /\ \A e \in ret.extracts : sid \notin e.students
                        /\ sid \notin ret.uncategorized
                        /\ sid \notin ret.final_report
                        /\ sid \notin ret.alt_hr_report
                  /\ (~TESTING_MODE /\ (pc \in {"updated", "done"}
                                        \/ raised = "generate_building_csvs")) =>
                        \E j \in 1..Len(base_file) :
                            /\ base_file[j].student_number = sid
                            /\ base_file[j].weekly_value = -1
                            /\ base_file[j].hrs_possible =
                                  current_week_data[i].hrs_possible

\* An invocation not in test mode has written its reports: student 1 is in
\* a group extract and the final report, student 2, who has no demographic
\* row, is in none of them and is in the ledger at age -1.
C30_Witness ==
    /\ call.op = "main"
    /\ pc = "done"
    /\ ~TESTING_MODE
    /\ Numbers(current_week_data) = {1, 2}
    /\ 2 \notin Numbers(LoadRecords(call.ps))
    /\ DOMAIN results = {1}
    /\ ret.final_report = {1}
    /\ \E e \in ret.extracts : e.students = {1}
    /\ \E j \in 1..Len(base_file) :
          base_file[j].student_number = 2 /\ base_file[j].weekly_value = -1

====
